---- MODULE Spec2Model ----
(***************************************************************************)
(* Ethiopian History AI Bot: the Subscriber Store (bot.py), the Theme      *)
(* Store (themes.py), the daily Dispatch Cycle and the weekly summary.     *)
(*                                                                         *)
(* Files are modelled by their content: a JSON document is a record with a *)
(* kind (what json.load makes of it) and the data the code reads from it.  *)
(* Every handler runs on one asyncio loop; a handler is atomic between two *)
(* awaits, so an action is the code between two suspension points.         *)
(***************************************************************************)
EXTENDS Integers, Sequences, FiniteSets, TLC

\* ------------------------------------------------------------------ bounds
MaxChat == 2        \* chat ids are 1..MaxChat
MaxCycles == 2      \* dispatch cycles (cron triggers) in one run
MaxWeek == 2        \* ISO weeks of the run
MaxLog == 1         \* facts logged in themes.json in all
ThemeChoices == 2   \* entries of DEFAULT_THEMES random.choice is let to pick
MaxFacts == 2       \* facts handed to compile_weekly_summary_sync
MaxFactLen == 2     \* tokens of one such fact
MaxTasks == 2       \* /start and /stop handlers in flight at once
MaxSummaries == 1   \* Weekly Summary Cycles in one run
MaxLogged == 2      \* facts logged in themes.json in all, in SpecLog
MaxUpdates == 4     \* /quiz commands and button presses in one run

Chats == 1..MaxChat
\* The days of the run, as day numbers of 2024 (1 January 2024 is the Monday of
\* ISO week 1): that Monday, and the Sunday and Monday of each week boundary.
Days == {1} \cup {7 * w : w \in 1..(MaxWeek - 1)} \cup {7 * w + 1 : w \in 1..(MaxWeek - 1)}
\* Texts the language model may return, and theme names an admin may set.
FactTexts == {"fact A", "fact B"}
OverrideNames == {"Adwa"}

\* ------------------------------------------------------------ state
VARIABLES
    subFile,        \* content of subscribers.json
    subLock,        \* _SUB_LOCK is held
    themeFile,      \* content of themes.json
    themesEnabled,  \* ENABLE_THEMES as is_themes_enabled() reads it
    today,          \* date.today(), a day number
    last,           \* what the last finished handler call did and returned
    expected,       \* the adds and removes so far, applied to an in-memory set
    clean,          \* the store started empty and no file I/O has failed
    firstRet,       \* this week's first ensure_current_week_theme() return
    cycle,          \* the running Dispatch Cycle / summary cycle: its locals
    tasks,          \* the /start and /stop handlers waiting for reply_text
    weekly,         \* the running Weekly Summary Cycle: its locals
    quiz            \* each user's user_data and the /quiz update being handled

vars == <<subFile, subLock, themeFile, themesEnabled, today, last, expected, clean,
         firstRet, cycle, tasks, weekly, quiz>>

\* The locks a file access runs under: _load_subscribers and _save_subscribers
\* are `with _SUB_LOCK:` blocks (bot.py 73, 90); _load_state and _save_state
\* (themes.py 42-69) open the file under no lock, and themes.py has none.
LocksHeldIn(fn) ==
    IF fn \in {"_load_subscribers", "_save_subscribers"} THEN {"_SUB_LOCK"} ELSE {}

\* The value of last before any handler has run.
NoLast == [op |-> "none", chat |-> 0, reply |-> "none", io |-> "none"]

\* ------------------------------------------------- subscribers.json (bot.py)
\* One element of the "subscribers" array as json.load returns it.
JInt(n) == [t |-> "int", v |-> n]         \* the number n
JNumStr(n) == [t |-> "numstr", v |-> n]   \* the string of n's digits
JWord == [t |-> "word", v |-> 0]          \* a string that is no number

\* int(x) of bot.py line 80: accepts a number and a string of digits.
IntAccepts(e) == e.t \in {"int", "numstr"}
IntOf(e) == e.v

Range(s) == {s[i] : i \in 1..Len(s)}

\* All orders list(subs) may give a set.
RECURSIVE Perms(_)
Perms(S) ==
    IF S = {} THEN {<<>>}
    ELSE UNION {{<<x>> \o p : p \in Perms(S \ {x})} : x \in S}

SubMissing == [kind |-> "missing", items |-> <<>>]
SubInvalid == [kind |-> "invalid_json", items |-> <<>>]
SubNotObject == [kind |-> "not_object", items |-> <<>>]
SubNoKey == [kind |-> "no_key", items |-> <<>>]
SubList(items) == [kind |-> "list", items |-> items]

\* What json.dump({"subscribers": list(subs)}) writes, list(subs) in order `order`.
SubDump(order) == SubList([i \in 1..Len(order) |-> JInt(order[i])])

\* The try block of _load_subscribers raises (lines 75-82).
LoadRaises(f) ==
    \/ f.kind \in {"invalid_json", "not_object"}
    \/ f.kind = "list" /\ \E i \in 1..Len(f.items) : ~IntAccepts(f.items[i])

\* _load_subscribers: the set returned, whether an exception left the function
\* (raised) or was caught inside it, and the lock and the file afterwards.
_load_subscribers_lockleak(f) ==
    [ret |-> IF f.kind = "missing" \/ LoadRaises(f) THEN {}
             ELSE {IntOf(e) : e \in Range(f.items)},
     raised |-> FALSE,
     caught |-> LoadRaises(f),
     lock |-> LoadRaises(f),
     file |-> f]

_load_subscribers_noexcept(f) ==
    [ret |-> IF f.kind = "missing" THEN {}
             ELSE {IntOf(e) : e \in {x \in Range(f.items) : IntAccepts(x)}},
     raised |-> FALSE,
     caught |-> LoadRaises(f),
     lock |-> FALSE,
     file |-> f]

_load_subscribers(f) ==
    [ret |-> IF f.kind = "missing" \/ LoadRaises(f) THEN {}
             ELSE {IntOf(e) : e \in Range(f.items)},
     raised |-> FALSE,
     caught |-> LoadRaises(f),
     lock |-> FALSE,
     file |-> f]

\* Outcomes of the file write of _save_subscribers / _save_state:
\* "ok"; "open_fails" (makedirs or open raises, the file is as it was);
\* "write_fails" (open truncated the file, json.dump raised part-way).
IoOutcomes == {"ok", "open_fails", "write_fails"}
\* The outcomes to tell apart for a call: one when it writes nothing.
IoFor(saves) == IF saves THEN IoOutcomes ELSE {"ok"}

\* _save_subscribers: the file afterwards.
_save_subscribers_drop(f, order, io) ==
    CASE io = "ok" -> SubDump(IF order = <<>> THEN order ELSE Tail(order))
      [] io = "open_fails" -> f
      [] OTHER -> SubInvalid

_save_subscribers(f, order, io) ==
    CASE io = "ok" -> SubDump(order)
      [] io = "open_fails" -> f
      [] OTHER -> SubInvalid

\* The persisted subscriber set: what a load of the file gives.
PersistedSubs(f) == _load_subscribers(f).ret

\* start_command lines 105-114: the reply, whether a save is made, the set saved.
start_plan_nocheck(chat_id, subs) ==
    [reply |-> "subscribed", save |-> TRUE, subs |-> subs \cup {chat_id}]

start_plan_alone(chat_id, subs) ==
    [reply |-> "subscribed", save |-> TRUE, subs |-> {chat_id}]

start_plan(chat_id, subs) ==
    IF chat_id \in subs
    THEN [reply |-> "already subscribed", save |-> FALSE, subs |-> subs]
    ELSE [reply |-> "subscribed", save |-> TRUE, subs |-> subs \cup {chat_id}]

\* stop_command lines 126-134.
stop_plan(chat_id, subs) ==
    IF chat_id \notin subs
    THEN [reply |-> "not subscribed", save |-> FALSE, subs |-> subs]
    ELSE [reply |-> "unsubscribed", save |-> TRUE, subs |-> subs \ {chat_id}]

\* A /start or /stop handler from its load to its reply, p being its plan for
\* the set loaded, the save's outcome being io and list(subs) giving order. A
\* load that raised ends the handler with no reply; a lock left held blocks
\* the save for good.
SubHandler(op, chat_id, p, io, order) ==
    LET ld == _load_subscribers(subFile)
        stuck == ld.raised \/ (ld.lock /\ p.save)
        saves == p.save /\ ~stuck
    IN  [file |-> IF saves THEN _save_subscribers(ld.file, order, io) ELSE ld.file,
         lock |-> ld.lock,
         clean |-> ~stuck /\ ~ld.caught /\ (saves => io = "ok"),
         last |-> [op |-> op, chat |-> chat_id,
                   reply |-> IF stuck THEN "none" ELSE p.reply,
                   pre |-> subFile, ld |-> ld, saved |-> saves,
                   io |-> IF saves THEN io ELSE "none",
                   repeat |-> last.op = op /\ last.chat = chat_id,
                   prevIo |-> last.io]]

SubCommand(op, chat_id, p, effect) ==
    /\ ~subLock
    /\ \E io \in IoFor(p.save) :
       \E order \in Perms(p.subs) :
          LET h == SubHandler(op, chat_id, p, io, order) IN
          /\ subFile' = h.file
          /\ subLock' = h.lock
          /\ last' = h.last
          /\ clean' = (clean /\ h.clean)
    /\ expected' = effect
    /\ UNCHANGED <<themeFile, themesEnabled, today, firstRet, cycle, tasks, weekly, quiz>>

\* start_command / stop_command up to `await update.message.reply_text` (lines
\* 102-107 or 102-115, 123-127 or 123-134): no await lies between the load and
\* the save, so the event loop runs them in one piece. The handler then waits
\* for reply_text while other handlers and the cycles run.
HandlerPlan(op, chat_id, subs) ==
    IF op = "start" THEN start_plan(chat_id, subs) ELSE stop_plan(chat_id, subs)

HandlerBegins(op, chat_id) ==
    /\ Cardinality(tasks) < MaxTasks
    /\ ~subLock
    /\ LET p == HandlerPlan(op, chat_id, _load_subscribers(subFile).ret)
           id == CHOOSE i \in 1..MaxTasks : \A t \in tasks : t.id # i
       IN  \E io \in IoFor(p.save) :
           \E order \in Perms(p.subs) :
              LET h == SubHandler(op, chat_id, p, io, order)
                  ioOk == h.last.io \in {"ok", "none"}
                  \* the handlers in flight, told of this one
                  others == {[t EXCEPT !.later = @ \/ t.chat = chat_id,
                                       !.ioOk = @ /\ ioOk] : t \in tasks}
              IN  /\ subFile' = h.file
                  /\ subLock' = h.lock
                  /\ tasks' = IF h.last.reply = "none" THEN others
                              ELSE others \cup {[id |-> id, op |-> op, chat |-> chat_id,
                                                later |-> FALSE, ioOk |-> ioOk]}
    /\ UNCHANGED <<themeFile, themesEnabled, today, last, expected, clean, firstRet,
                   cycle, weekly, quiz>>

\* reply_text returns or raises: the handler ends (lines 107-110, 115-118).
HandlerReplied ==
    /\ \E t \in tasks : tasks' = tasks \ {t}
    /\ UNCHANGED <<subFile, subLock, themeFile, themesEnabled, today, last, expected,
                   clean, firstRet, cycle, weekly, quiz>>

start_command(chat_id) ==
    SubCommand("start", chat_id, start_plan(chat_id, _load_subscribers(subFile).ret),
               expected \cup {chat_id})

stop_command(chat_id) ==
    SubCommand("stop", chat_id, stop_plan(chat_id, _load_subscribers(subFile).ret),
               expected \ {chat_id})

\* ------------------------------------------------- themes.json (themes.py)
DEFAULT_THEMES ==
    <<"Ancient Kingdoms of Ethiopia", "Influential Leaders", "Historic Battles",
      "Freedom Fighters", "Cultural Heritage and Traditions",
      "Religious History and Landmarks", "Trade, Diplomacy, and Global Influence">>

\* _week_key: f"{iso_year}-{iso_week:02d}" of day d of 2024.
_week_key(d) ==
    LET iso_week == ((d - 1) \div 7) + 1
    IN  "2024-" \o (IF iso_week < 10 THEN "0" ELSE "") \o ToString(iso_week)

\* get_day_index_for_week: isoweekday, 1 (Monday) to 7 (Sunday).
get_day_index_for_week(d) == ((d - 1) % 7) + 1

\* A dict: a function whose domain is its keys.
EmptyDict == [k \in {} |-> <<>>]
SetDefault(dict, k, v) == IF k \in DOMAIN dict THEN dict ELSE dict @@ (k :> v)
DictGet(dict, k, default) == IF k \in DOMAIN dict THEN dict[k] ELSE default
DictPut(dict, k, v) == [x \in DOMAIN dict \cup {k} |-> IF x = k THEN v ELSE dict[x]]

\* str(chat_id), the key of a chat in facts_log.
StrOfChat(chat_id) == ToString(chat_id)

\* The default state of _load_state (lines 45-50 and 55-60).
DefaultState ==
    [subscribers |-> <<>>, current_week_key |-> "", current_theme |-> "",
     facts_log |-> EmptyDict]

ThemeMissing == [kind |-> "missing", st |-> DefaultState]
ThemeInvalid == [kind |-> "invalid_json", st |-> DefaultState]
ThemeNotObject == [kind |-> "not_object", st |-> DefaultState]
ThemeOk(st) == [kind |-> "ok", st |-> st]

\* _load_state: the value returned; isDict is false for a JSON document that
\* is no object (json.load returns it as it is, and the caller's .get raises).
_load_state(f) ==
    CASE f.kind = "ok" -> [isDict |-> TRUE, st |-> f.st]
      [] f.kind = "not_object" -> [isDict |-> FALSE, st |-> DefaultState]
      [] OTHER -> [isDict |-> TRUE, st |-> DefaultState]

\* _save_state: the file afterwards.
_save_state(f, st, io) ==
    CASE io = "ok" -> ThemeOk(st)
      [] io = "open_fails" -> f
      [] OTHER -> ThemeInvalid

\* list.remove(x): the first occurrence goes.
RECURSIVE ListRemove(_, _)
ListRemove(s, x) ==
    IF s = <<>> THEN <<>>
    ELSE IF Head(s) = x THEN Tail(s)
    ELSE <<Head(s)>> \o ListRemove(Tail(s), x)

\* What a Theme Store call gives: ret (its return value), raised (an exception
\* left it), saved (it called _save_state) and the file afterwards.
Call(ret, raised, saved, file) ==
    [ret |-> ret, raised |-> raised, saved |-> saved, file |-> file]

\* subscribe without its membership test.
subscribe_dup(f, chat_id, io) ==
    LET state == _load_state(f)
        subs == state.st.subscribers
    IN  IF ~state.isDict THEN Call(FALSE, TRUE, FALSE, f)
        ELSE Call(TRUE, FALSE, TRUE,
                  _save_state(f, [state.st EXCEPT !.subscribers = Append(subs, chat_id)], io))

\* subscribe (lines 72-81).
subscribe(f, chat_id, io) ==
    LET state == _load_state(f)
        subs == state.st.subscribers
    IN  IF ~state.isDict THEN Call(FALSE, TRUE, FALSE, f)
        ELSE IF chat_id \in Range(subs) THEN Call(FALSE, FALSE, FALSE, f)
        ELSE Call(TRUE, FALSE, TRUE,
                  _save_state(f, [state.st EXCEPT !.subscribers = Append(subs, chat_id)], io))

\* unsubscribe (lines 84-93).
unsubscribe(f, chat_id, io) ==
    LET state == _load_state(f)
        subs == state.st.subscribers
    IN  IF ~state.isDict THEN Call(FALSE, TRUE, FALSE, f)
        ELSE IF chat_id \notin Range(subs) THEN Call(FALSE, FALSE, FALSE, f)
        ELSE Call(TRUE, FALSE, TRUE,
                  _save_state(f, [state.st EXCEPT !.subscribers = ListRemove(subs, chat_id)], io))

\* is_subscribed (lines 96-98).
is_subscribed(f, chat_id) ==
    LET state == _load_state(f)
    IN  IF ~state.isDict THEN Call(FALSE, TRUE, FALSE, f)
        ELSE Call(chat_id \in Range(state.st.subscribers), FALSE, FALSE, f)

\* ensure_current_week_theme selecting anew at every call.
ensure_current_week_theme_asgiven(f, d, admin_override, pick, io) ==
    LET state == _load_state(f)
        wk == _week_key(d)
        picked == [state.st EXCEPT !.current_week_key = wk,
                                   !.current_theme = admin_override,
                                   !.facts_log = SetDefault(@, wk, EmptyDict)]
    IN  IF ~state.isDict THEN Call(<<"", "">>, TRUE, FALSE, f)
        ELSE IF state.st.current_week_key # wk \/ state.st.current_theme = ""
        THEN Call(<<wk, admin_override>>, FALSE, TRUE, _save_state(f, picked, io))
        ELSE Call(<<state.st.current_week_key, state.st.current_theme>>, FALSE, FALSE, f)

ensure_current_week_theme_repick(f, d, admin_override, pick, io) ==
    LET state == _load_state(f)
        wk == _week_key(d)
        theme == IF admin_override # "" THEN admin_override ELSE pick
        picked == [state.st EXCEPT !.current_week_key = wk,
                                   !.current_theme = theme,
                                   !.facts_log = SetDefault(@, wk, EmptyDict)]
    IN  IF ~state.isDict THEN Call(<<"", "">>, TRUE, FALSE, f)
        ELSE Call(<<wk, theme>>, FALSE, TRUE, _save_state(f, picked, io))

\* ensure_current_week_theme (lines 101-116) on day d; admin_override "" is
\* None or the empty string; pick is what _pick_random_theme would return.
ensure_current_week_theme(f, d, admin_override, pick, io) ==
    LET state == _load_state(f)
        wk == _week_key(d)
        theme == IF admin_override # "" THEN admin_override ELSE pick
        picked == [state.st EXCEPT !.current_week_key = wk,
                                   !.current_theme = theme,
                                   !.facts_log = SetDefault(@, wk, EmptyDict)]
    IN  IF ~state.isDict THEN Call(<<"", "">>, TRUE, FALSE, f)
        ELSE IF state.st.current_week_key # wk \/ state.st.current_theme = ""
        THEN Call(<<wk, theme>>, FALSE, TRUE, _save_state(f, picked, io))
        ELSE Call(<<state.st.current_week_key, state.st.current_theme>>, FALSE, FALSE, f)

\* get_current_theme (lines 119-121).
get_current_theme(f) ==
    LET state == _load_state(f)
    IN  IF ~state.isDict THEN Call(<<"", "">>, TRUE, FALSE, f)
        ELSE Call(<<state.st.current_week_key, state.st.current_theme>>, FALSE, FALSE, f)

\* log_fact_for_chat (lines 154-160), and one that saves nothing.
log_fact_for_chat_unsaved(f, chat_id, week_key, fact, io) ==
    Call(TRUE, FALSE, FALSE, f)

\* (And one that writes the fact into a state it did not reload.)
log_fact_for_chat_stale(f, chat_id, week_key, fact, io) ==
    LET state == _load_state(f)
        facts_log == SetDefault(state.st.facts_log, week_key, EmptyDict)
        wk_log == SetDefault(facts_log[week_key], StrOfChat(chat_id), <<>>)
        chat_log == Append(wk_log[StrOfChat(chat_id)], fact)
        logged == [DefaultState EXCEPT !.facts_log =
                      DictPut(facts_log, week_key,
                              DictPut(wk_log, StrOfChat(chat_id), chat_log))]
    IN  IF ~state.isDict THEN Call(FALSE, TRUE, FALSE, f)
        ELSE Call(TRUE, FALSE, TRUE, _save_state(f, logged, io))

\* (And one that puts the fact first.)
log_fact_for_chat_front(f, chat_id, week_key, fact, io) ==
    LET state == _load_state(f)
        facts_log == SetDefault(state.st.facts_log, week_key, EmptyDict)
        wk_log == SetDefault(facts_log[week_key], StrOfChat(chat_id), <<>>)
        chat_log == <<fact>> \o wk_log[StrOfChat(chat_id)]
        logged == [state.st EXCEPT !.facts_log =
                      DictPut(facts_log, week_key,
                              DictPut(wk_log, StrOfChat(chat_id), chat_log))]
    IN  IF ~state.isDict THEN Call(FALSE, TRUE, FALSE, f)
        ELSE Call(TRUE, FALSE, TRUE, _save_state(f, logged, io))

log_fact_for_chat(f, chat_id, week_key, fact, io) ==
    LET state == _load_state(f)
        facts_log == SetDefault(state.st.facts_log, week_key, EmptyDict)
        wk_log == SetDefault(facts_log[week_key], StrOfChat(chat_id), <<>>)
        chat_log == Append(wk_log[StrOfChat(chat_id)], fact)
        logged == [state.st EXCEPT !.facts_log =
                      DictPut(facts_log, week_key,
                              DictPut(wk_log, StrOfChat(chat_id), chat_log))]
    IN  IF ~state.isDict THEN Call(FALSE, TRUE, FALSE, f)
        ELSE Call(TRUE, FALSE, TRUE, _save_state(f, logged, io))

\* --------------------------------------------------------- Theme Store calls
\* THEME_ADMIN_IDS as theme_command parses it (lines 210-211).
THEME_ADMIN_IDS == {1}

NoFirst == [wk |-> "", ret |-> <<"", "">>, ok |-> TRUE]
\* Python's None, as the value of a local.
None == "<None>"
\* The locals of _send_daily_facts before a cron trigger, with the record of
\* what the cycle did: the set S it loaded, the generation calls, the text
\* each chat was sent, the chats a send was tried for, the chats whose send
\* raised, the chats whose themed generation raised, the chats whose fact the
\* language model failed to give, the order of the loop, and how the function
\* ended.
IdleCycle ==
    [pc |-> "idle", n |-> 0, rest |-> <<>>, chat_id |-> 0, generic_fact |-> None,
     wk |-> "", theme_name |-> "", day_index |-> 0, themed_fact |-> None,
     successful_sends |-> 0, failed_sends |-> 0,
     S |-> {}, genCalls |-> 0, sent |-> [c \in Chats |-> None], genericTo |-> {},
     tried |-> {}, sendFailed |-> {}, genRaised |-> {}, noFact |-> {},
     llmFailed |-> FALSE, order |-> <<>>, outcome |-> "none",
     \* facts_log when the cycle began, the themed fact each chat was sent,
     \* and whether every write of themes.json in the cycle succeeded
     log0 |-> EmptyDict, themedFact |-> [c \in Chats |-> None], ioOk |-> TRUE,
     \* how often the for loop took each chat, and the send_message calls made
     \* for it
     visits |-> [c \in Chats |-> 0], sends |-> [c \in Chats |-> 0]]

\* No Weekly Summary Cycle has run: the locals of send_weekly_summaries,
\* themes.json as it was when the cycle began (start), and the cycle's
\* language-model calls, send attempts and delivered texts.
IdleWeekly ==
    [pc |-> "idle", n |-> 0, rest |-> <<>>, chat_id |-> 0, wk |-> "", theme |-> "",
     wk_log |-> EmptyDict, summary |-> <<>>, start |-> ThemeMissing,
     attempts |-> [c \in Chats |-> 0], llmCalls |-> 0, sendFailed |-> {},
     texts |-> [c \in Chats |-> <<>>], outcome |-> "none"]

\* The themed subscribers in the file.
ThemedSubs(f) == Range(_load_state(f).st.subscribers)

\* The record of a finished Theme Store call made with the file as it is now:
\* what it returned, whether it left the file as it was, whether chat_id was a
\* themed subscriber before it.
Done(op, chat_id, call, io, override, reply) ==
    [op |-> op, chat |-> chat_id, ret |-> call.ret, raised |-> call.raised,
     saved |-> call.saved, io |-> IF call.saved THEN io ELSE "none",
     unchanged |-> call.file = themeFile, wasSub |-> chat_id \in ThemedSubs(themeFile),
     override |-> override, reply |-> reply, first |-> FALSE,
     locks |-> LocksHeldIn("_load_state") \cup LocksHeldIn("_save_state")]

\* firstRet after a Theme Store call whose save, if any, ended io.
NoteWrite(call, io) ==
    IF firstRet.wk = _week_key(today)
    THEN [firstRet EXCEPT !.ok = @ /\ (call.saved => io = "ok")]
    ELSE firstRet

\* `chat_id not in admin_ids` negated (bot.py line 212), and the test dropped.
IsThemeAdmin_anyone(chat_id) == TRUE

IsThemeAdmin(chat_id) == chat_id \in THEME_ADMIN_IDS

ThemeFrame ==
    UNCHANGED <<subFile, subLock, themesEnabled, today, expected, clean, cycle, tasks, weekly, quiz>>

\* theme_command (lines 155-224): /theme with the words args, from chat_id.
theme_command(chat_id, args) ==
    /\ \E io \in IoFor(themesEnabled /\ args # <<>>
                        /\ args[1] \in {"on", "subscribe", "off", "unsubscribe", "set"}) :
       LET action == IF args = <<>> THEN "" ELSE args[1]
           manual_theme == IF Len(args) > 1 THEN args[2] ELSE ""
           sub == is_subscribed(themeFile, chat_id)
           cur == get_current_theme(themeFile)
           done(op, reply, call) ==
               /\ themeFile' = call.file
               /\ last' = Done(op, chat_id, call, io, manual_theme,
                               IF call.raised THEN "none" ELSE reply)
                             @@ [action |-> action]
               /\ firstRet' = NoteWrite(call, io)
       IN  CASE ~themesEnabled ->
                  done("disabled", "disabled by the admin", Call(FALSE, FALSE, FALSE, themeFile))
             [] themesEnabled /\ action \in {"", "status"} ->
                  done("status",
                       IF sub.ret THEN "subscribed" ELSE "not subscribed",
                       Call(cur.ret, sub.raised \/ cur.raised, FALSE, themeFile))
             [] themesEnabled /\ action \in {"on", "subscribe"} ->
                  LET call == subscribe(themeFile, chat_id, io) IN
                  done("subscribe",
                       IF call.ret THEN "Subscribed" ELSE "already subscribed", call)
             [] themesEnabled /\ action \in {"off", "unsubscribe"} ->
                  LET call == unsubscribe(themeFile, chat_id, io) IN
                  done("unsubscribe",
                       IF call.ret THEN "Unsubscribed" ELSE "not subscribed", call)
             [] themesEnabled /\ action = "set" /\ ~IsThemeAdmin(chat_id) ->
                  done("denied", "not authorized", Call(FALSE, FALSE, FALSE, themeFile))
             [] themesEnabled /\ action = "set" /\ IsThemeAdmin(chat_id)
                  /\ Len(args) < 2 ->
                  done("usage", "Usage", Call(FALSE, FALSE, FALSE, themeFile))
             [] themesEnabled /\ action = "set" /\ IsThemeAdmin(chat_id)
                  /\ Len(args) >= 2 ->
                  \* admin_override is not empty: _pick_random_theme is not called
                  LET call == ensure_current_week_theme(themeFile, today, manual_theme,
                                                        DEFAULT_THEMES[1], io) IN
                  done("set", call.ret[2], call)
             [] OTHER ->
                  done("unknown", "Unknown action", Call(FALSE, FALSE, FALSE, themeFile))
    /\ ThemeFrame

\* The /theme commands that reach the Theme Store.
ThemeArgs == {<<"on">>, <<"off">>, <<"status">>} \cup {<<"set", n>> : n \in OverrideNames}

\* _pick_random_theme (lines 124-127): what random.choice may return, when called.
PicksFor(called) ==
    IF called THEN {DEFAULT_THEMES[i] : i \in 1..ThemeChoices} ELSE {DEFAULT_THEMES[1]}

\* The Dispatch Cycle's call ensure_current_week_theme() (bot.py line 286).
CallEnsure ==
    /\ themesEnabled
    /\ \E io \in IoFor(ensure_current_week_theme(themeFile, today, "", "", "ok").saved),
          pick \in PicksFor(ensure_current_week_theme(themeFile, today, "", "", "ok").saved) :
       LET call == ensure_current_week_theme(themeFile, today, "", pick, io)
           first == ~call.raised /\ firstRet.wk # _week_key(today)
       IN  /\ themeFile' = call.file
           /\ last' = [Done("ensure", 0, call, io, "", "none") EXCEPT !.first = first]
           /\ firstRet' = IF first
                          THEN [wk |-> _week_key(today), ret |-> call.ret,
                                ok |-> call.saved => io = "ok"]
                          ELSE NoteWrite(call, io)
    /\ ThemeFrame

\* The facts of chat_id logged for week_key in the file.
LoggedFacts(f, week_key, chat_id) ==
    DictGet(DictGet(_load_state(f).st.facts_log, week_key, EmptyDict),
            StrOfChat(chat_id), <<>>)

\* The number of facts in the file's facts_log.
RECURSIVE SumLens(_, _)
SumLens(dict, keys) ==
    IF keys = {} THEN 0
    ELSE LET k == CHOOSE x \in keys : TRUE
         IN  Len(dict[k]) + SumLens(dict, keys \ {k})

RECURSIVE SumLogs(_, _)
SumLogs(dict, keys) ==
    IF keys = {} THEN 0
    ELSE LET k == CHOOSE x \in keys : TRUE
         IN  SumLens(dict[k], DOMAIN dict[k]) + SumLogs(dict, keys \ {k})

LogSize(f) ==
    LET facts_log == _load_state(f).st.facts_log
    IN  SumLogs(facts_log, DOMAIN facts_log)

\* The Dispatch Cycle's call log_fact_for_chat (bot.py line 304).
CallLogFact(chat_id, week_key, fact) ==
    /\ themesEnabled
    /\ \E io \in IoFor(log_fact_for_chat(themeFile, chat_id, week_key, fact, "ok").saved) :
       LET call == log_fact_for_chat(themeFile, chat_id, week_key, fact, io) IN
       /\ themeFile' = call.file
       /\ last' = Done("log_fact", chat_id, call, io, "", "none")
       /\ firstRet' = NoteWrite(call, io)
    /\ ThemeFrame

\* Time passes: a later day of the run begins, no handler having run in it.
AdvanceDay ==
    /\ cycle.pc = "idle"
    /\ \E d \in Days : d > today /\ today' = d
    /\ last' = NoLast
    /\ UNCHANGED <<subFile, subLock, themeFile, themesEnabled, expected, clean,
                   firstRet, cycle, tasks, weekly, quiz>>

\* ------------------------------------------- the Dispatch Cycle (bot.py)
\* What llm.invoke may do: raise, or answer one of FactTexts (the text is the
\* answer's content after strip()).
LlmOutcomes == {"raises"} \cup FactTexts

\* The apology _generate_fact_sync returns from its except block (line 262).
APOLOGY ==
    "I apologize, but I'm having trouble generating a history fact right now. Please try again later."

\* _generate_fact_sync (lines 227-262): it never raises.
_generate_fact_sync(llm) == IF llm = "raises" THEN APOLOGY ELSE llm

\* generate_themed_fact_sync (themes.py lines 136-151): no try block.
generate_themed_fact_sync(theme, day_index, llm) ==
    IF llm = "raises" THEN [raised |-> TRUE, ret |-> None]
    ELSE [raised |-> FALSE, ret |-> llm]

\* The message texts of lines 299-302 and 311 (the emoji left out).
ThemedMessage(theme_name, day_index, themed_fact) ==
    "Weekly Theme: " \o theme_name \o "\nDay " \o ToString(day_index) \o "/7\n\n"
        \o themed_fact

GenericMessage(generic_fact) ==
    "**Daily Ethiopian History Fact**\n\n" \o generic_fact \o "\n\nHave a great day!"

\* `if generic_fact is None` (line 307), and the same test dropped.
NeedsGeneration_always(generic_fact) == TRUE

NeedsGeneration(generic_fact) == generic_fact = None

\* The per-chat except block (lines 314-316), and one that leaves the loop.
CountFailure_abort(c) ==
    [c EXCEPT !.failed_sends = @ + 1, !.rest = <<>>]

CountFailure(c) == [c EXCEPT !.failed_sends = @ + 1]

\* Line 313.
CountSuccess(c) == [c EXCEPT !.successful_sends = @ + 1]

\* The for loop from the top of an iteration up to its first await (lines
\* 292-307), or to the return after the last chat; f is themes.json.
RECURSIVE ForLoop(_, _)
ForLoop(c, f) ==
    IF c.rest = <<>>
    THEN [c EXCEPT !.pc = "done", !.chat_id = 0, !.outcome = "completed"]
    ELSE LET c1 == [c EXCEPT !.chat_id = Head(c.rest), !.rest = Tail(c.rest),
                             !.visits[Head(c.rest)] = @ + 1]
             sub == is_subscribed(f, c1.chat_id)
         IN  IF themesEnabled /\ sub.raised THEN ForLoop(CountFailure(c1), f)
             ELSE IF themesEnabled /\ sub.ret /\ c1.theme_name # "" /\ c1.day_index # 0
             THEN [c1 EXCEPT !.pc = "gen_themed"]
             ELSE IF NeedsGeneration(c1.generic_fact)
             THEN [c1 EXCEPT !.pc = "gen_generic"]
             ELSE [c1 EXCEPT !.pc = "send_generic"]

DispatchFrame ==
    UNCHANGED <<subFile, themesEnabled, today, last, expected, clean, firstRet, tasks, weekly, quiz>>

\* The cron trigger: _send_daily_facts from its start to its first await
\* (lines 271-296 or 271-308), to its early return (line 274) or to the outer
\* except block (line 320).
Trigger ==
    /\ cycle.pc \in {"idle", "done"}
    /\ cycle.n < MaxCycles
    /\ ~subLock
    /\ LET ld == _load_subscribers(subFile)
           subs == ld.ret
           begun == [IdleCycle EXCEPT !.n = cycle.n + 1, !.S = subs,
                                      !.log0 = _load_state(themeFile).st.facts_log]
           writes == themesEnabled /\ subs # {}
                        /\ ensure_current_week_theme(themeFile, today, "", "", "ok").saved
       IN  /\ subLock' = ld.lock
           /\ \E order \in Perms(subs), io \in IoFor(writes), pick \in PicksFor(writes) :
                 LET ens == ensure_current_week_theme(themeFile, today, "", pick, io)
                     locals == IF themesEnabled
                               THEN [begun EXCEPT !.rest = order, !.order = order, !.wk = ens.ret[1],
                                                  !.ioOk = (io = "ok"),
                                                  !.theme_name = ens.ret[2],
                                                  !.day_index = get_day_index_for_week(today)]
                               ELSE [begun EXCEPT !.rest = order, !.order = order]
                 IN  IF subs = {}
                     THEN /\ cycle' = [begun EXCEPT !.pc = "done", !.outcome = "skipped"]
                          /\ themeFile' = themeFile
                     ELSE IF themesEnabled /\ ens.raised
                     THEN /\ cycle' = [begun EXCEPT !.pc = "done",
                                                    !.outcome = "logged_exception"]
                          /\ themeFile' = themeFile
                     ELSE /\ themeFile' = (IF themesEnabled THEN ens.file ELSE themeFile)
                          /\ cycle' = ForLoop(locals, themeFile')
    /\ DispatchFrame

\* generate_themed_fact_sync returns or raises in its thread (line 296).
ThemedGenerated ==
    /\ cycle.pc = "gen_themed"
    /\ \E llm \in LlmOutcomes :
          LET gen == generate_themed_fact_sync(cycle.theme_name, cycle.day_index, llm)
          IN  cycle' = IF gen.raised
                       THEN ForLoop(CountFailure([cycle EXCEPT
                                        !.noFact = @ \cup {cycle.chat_id},
                                        !.genRaised = @ \cup {cycle.chat_id}]),
                                    themeFile)
                       ELSE [cycle EXCEPT !.themed_fact = gen.ret, !.pc = "send_themed"]
    /\ UNCHANGED <<themeFile, subLock>>
    /\ DispatchFrame

\* send_message of the themed branch returns or raises (lines 297-304, 313).
ThemedSent ==
    /\ cycle.pc = "send_themed"
    /\ \E ok \in BOOLEAN :
       \E io \in IoFor(ok) :
          LET chat_id == cycle.chat_id
              tried == [cycle EXCEPT !.tried = @ \cup {chat_id}, !.sends[chat_id] = @ + 1]
              text == ThemedMessage(cycle.theme_name, cycle.day_index, cycle.themed_fact)
              log == log_fact_for_chat(themeFile, chat_id, cycle.wk, cycle.themed_fact, io)
          IN  IF ~ok
              THEN /\ themeFile' = themeFile
                   /\ cycle' = ForLoop(CountFailure([tried EXCEPT !.sendFailed = @ \cup {chat_id}]),
                                       themeFile')
              ELSE /\ themeFile' = log.file
                   /\ cycle' = ForLoop(
                          LET sent == [tried EXCEPT !.sent[chat_id] = text,
                                                    !.themedFact[chat_id] = cycle.themed_fact,
                                                    !.ioOk = @ /\ io = "ok"]
                          IN  IF log.raised THEN CountFailure(sent) ELSE CountSuccess(sent),
                          themeFile')
    /\ UNCHANGED subLock
    /\ DispatchFrame

\* _generate_fact_sync returns in its thread (line 308).
GenericGenerated ==
    /\ cycle.pc = "gen_generic"
    /\ \E llm \in LlmOutcomes :
          cycle' = [cycle EXCEPT !.generic_fact = _generate_fact_sync(llm),
                                 !.genCalls = @ + 1,
                                 !.llmFailed = (llm = "raises"),
                                 !.pc = "send_generic"]
    /\ UNCHANGED <<themeFile, subLock>>
    /\ DispatchFrame

\* send_message of the generic branch returns or raises (lines 309-313).
GenericSent ==
    /\ cycle.pc = "send_generic"
    /\ \E ok \in BOOLEAN :
          LET chat_id == cycle.chat_id
              tried == [cycle EXCEPT !.tried = @ \cup {chat_id}, !.sends[chat_id] = @ + 1,
                                     !.noFact = IF cycle.llmFailed
                                                THEN @ \cup {chat_id} ELSE @]
              text == GenericMessage(cycle.generic_fact)
          IN  cycle' = ForLoop(
                  IF ok
                  THEN CountSuccess([tried EXCEPT !.sent[chat_id] = text,
                                                  !.genericTo = @ \cup {chat_id}])
                  ELSE CountFailure([tried EXCEPT !.sendFailed = @ \cup {chat_id}]),
                  themeFile)
    /\ UNCHANGED <<themeFile, subLock>>
    /\ DispatchFrame

\* --------------------------------------- the weekly summary (themes.py)
\* A text here is a sequence of tokens: a character, or a literal piece of a
\* format string that no input holds.
NL == "\n"
Whitespace == {" ", NL}
SummaryAlphabet == {"a", "-", NL}
TextsUpTo(alphabet, n) == UNION {[1..k -> alphabet] : k \in 0..n}
SummaryThemes == {<<>>, <<"a">>, <<"A", "d", "w", "a">>}
SummaryFacts == TextsUpTo(TextsUpTo(SummaryAlphabet, MaxFactLen), MaxFacts)

\* sep.join(parts).
RECURSIVE Join(_, _)
Join(sep, parts) ==
    IF parts = <<>> THEN <<>>
    ELSE IF Len(parts) = 1 THEN parts[1]
    ELSE parts[1] \o sep \o Join(sep, Tail(parts))

\* str.strip(): the whitespace at both ends goes.
RECURSIVE LStrip(_)
LStrip(t) == IF t # <<>> /\ Head(t) \in Whitespace THEN LStrip(Tail(t)) ELSE t
RECURSIVE RStrip(_)
RStrip(t) ==
    IF t # <<>> /\ t[Len(t)] \in Whitespace THEN RStrip(SubSeq(t, 1, Len(t) - 1)) ELSE t
Strip(t) == RStrip(LStrip(t))

Reverse(parts) == [i \in 1..Len(parts) |-> parts[Len(parts) + 1 - i]]

\* What llm.invoke may do for a summary: raise, or answer an object with a
\* content, a list of such objects, or anything else (lines 177-181).
SummaryAnswers == {<<"s">>, <<NL, "s", " ">>}
SummaryLlm ==
    {[kind |-> "raises", text |-> <<>>]}
        \cup [kind : {"content", "list", "other"}, text : SummaryAnswers]

\* The except block of compile_weekly_summary_sync (lines 182-185).
SummaryFallback(theme, facts) ==
    <<"Weekly Summary for '">> \o theme \o <<"':", NL, NL>>
        \o Join(<<NL>>, [i \in 1..Len(facts) |-> <<"-", " ">> \o facts[i]])

\* compile_weekly_summary_sync with the facts of the fallback in reverse.
compile_weekly_summary_sync_reversed(theme, facts, llm) ==
    IF llm.kind = "raises"
    THEN [raised |-> FALSE, ret |-> SummaryFallback(theme, Reverse(facts))]
    ELSE [raised |-> FALSE, ret |-> Strip(llm.text)]

\* compile_weekly_summary_sync (lines 163-185): what it returns, and whether
\* an exception leaves it.
compile_weekly_summary_sync(theme, facts, llm) ==
    IF llm.kind = "raises"
    THEN [raised |-> FALSE, ret |-> SummaryFallback(theme, facts)]
    ELSE [raised |-> FALSE, ret |-> Strip(llm.text)]

\* A call of compile_weekly_summary_sync with the arguments drawn.
CompileSummary ==
    /\ cycle.pc = "summary"
    /\ LET call == compile_weekly_summary_sync(cycle.theme, cycle.facts, cycle.llm)
       IN  last' = [op |-> "compile", chat |-> 0, reply |-> "none", io |-> "none",
                    theme |-> cycle.theme, facts |-> cycle.facts, llm |-> cycle.llm,
                    ret |-> call.ret, raised |-> call.raised]
    /\ UNCHANGED <<subFile, subLock, themeFile, themesEnabled, today, expected, clean,
                   firstRet, cycle, tasks, weekly, quiz>>

\* ------------------------------------ the Weekly Summary Cycle (themes.py)
\* is_themes_enabled (lines 32-33) on the flag ENABLE_THEMES stands for, and
\* one that takes the feature for enabled whatever the flag.
is_themes_enabled_on(flag) == TRUE

is_themes_enabled(flag) == flag

\* _to_thread_compile (lines 215-218): compile_weekly_summary_sync in a worker
\* thread. It returns the language model's text, or the fallback made of the
\* theme and the facts when the call raises; it does not raise.
_to_thread_compile(theme, facts, llm) ==
    IF llm = "raises" THEN <<"Weekly Summary for", theme, facts>> ELSE <<llm>>

\* The message text of line 209 (the emoji left out).
SummaryMessage(theme, summary) == <<"Weekly Summary: ", theme, summary>>

\* The for loop of send_weekly_summaries from the top of an iteration to its
\* first await (lines 199-205), or to the return after the last subscriber.
\* (The same loop without `if not facts: continue`.)
WeeklyLoop_nofilter(w) ==
    IF w.rest = <<>>
    THEN [w EXCEPT !.pc = "done", !.chat_id = 0, !.outcome = "completed"]
    ELSE [w EXCEPT !.chat_id = Head(w.rest), !.rest = Tail(w.rest), !.pc = "compile"]

RECURSIVE WeeklyLoop(_)
WeeklyLoop(w) ==
    IF w.rest = <<>>
    THEN [w EXCEPT !.pc = "done", !.chat_id = 0, !.outcome = "completed"]
    ELSE LET w1 == [w EXCEPT !.chat_id = Head(w.rest), !.rest = Tail(w.rest)]
             facts == DictGet(w.wk_log, StrOfChat(w1.chat_id), <<>>)
         IN  IF facts = <<>> THEN WeeklyLoop(w1) ELSE [w1 EXCEPT !.pc = "compile"]

WeeklyFrame ==
    UNCHANGED <<subFile, subLock, themeFile, themesEnabled, today, last, expected, clean,
                firstRet, cycle, tasks, quiz>>

\* The cron trigger of Sunday 20:00: send_weekly_summaries from its start to
\* its first await (lines 187-205) or to one of its returns.
WeeklyTrigger ==
    /\ weekly.pc \in {"idle", "done"}
    /\ weekly.n < MaxSummaries
    /\ LET begun == [IdleWeekly EXCEPT !.n = weekly.n + 1, !.start = themeFile]
           state == _load_state(themeFile)
           cur == get_current_theme(themeFile)
           wk == cur.ret[1]
           theme == cur.ret[2]
       IN  weekly' =
              IF ~is_themes_enabled(themesEnabled)
              THEN [begun EXCEPT !.pc = "done", !.outcome = "disabled"]
              ELSE IF cur.raised
              THEN [begun EXCEPT !.pc = "done", !.outcome = "raised"]
              ELSE IF wk = "" \/ theme = ""
              THEN [begun EXCEPT !.pc = "done", !.outcome = "skipped"]
              ELSE WeeklyLoop([begun EXCEPT !.wk = wk, !.theme = theme,
                                            !.rest = state.st.subscribers,
                                            !.wk_log = DictGet(state.st.facts_log, wk,
                                                               EmptyDict)])
    /\ WeeklyFrame

\* (One that looks the facts up in themes.json when the summary is made.)
WeeklyCompiled_reload ==
    /\ weekly.pc = "compile"
    /\ \E llm \in LlmOutcomes :
          LET facts == LoggedFacts(themeFile, weekly.wk, weekly.chat_id)
          IN  weekly' = [weekly EXCEPT !.summary = _to_thread_compile(weekly.theme, facts, llm),
                                       !.llmCalls = @ + 1,
                                       !.pc = "send"]
    /\ WeeklyFrame

\* compile_weekly_summary_sync returns in its thread (line 205).
WeeklyCompiled ==
    /\ weekly.pc = "compile"
    /\ \E llm \in LlmOutcomes :
          LET facts == DictGet(weekly.wk_log, StrOfChat(weekly.chat_id), <<>>)
          IN  weekly' = [weekly EXCEPT !.summary = _to_thread_compile(weekly.theme, facts, llm),
                                       !.llmCalls = @ + 1,
                                       !.pc = "send"]
    /\ WeeklyFrame

\* send_message returns or raises (lines 206-212); the loop goes on.
WeeklySent ==
    /\ weekly.pc = "send"
    /\ \E ok \in BOOLEAN :
          LET chat_id == weekly.chat_id
              tried == [weekly EXCEPT !.attempts[chat_id] = @ + 1]
          IN  weekly' = WeeklyLoop(
                  IF ok
                  THEN [tried EXCEPT !.texts[chat_id] =
                                         SummaryMessage(weekly.theme, weekly.summary)]
                  ELSE [tried EXCEPT !.sendFailed = @ \cup {chat_id}])
    /\ WeeklyFrame

\* ------------------------------------------------ DAILY_SEND_TIME (bot.py)
\* A piece of time_str.split(":", 1) as int() takes it: the digits of a
\* number (a sign allowed), or text int() rejects (empty, letters, "30:00").
TimeNumbers == {-1, 0, 5, 9, 23, 24, 25, 59, 60, 75}
TimePieces == [t : {"int"}, v : TimeNumbers] \cup {JWord}
\* The values of DAILY_SEND_TIME: one piece (no colon) or two.
TimeStrings == {<<p>> : p \in TimePieces} \cup (TimePieces \X TimePieces)

\* datetime.time(hour, minute): ValueError outside 0..23 and 0..59.
dtime(hour, minute) ==
    IF hour \in 0..23 /\ minute \in 0..59
    THEN [raised |-> FALSE, hour |-> hour, minute |-> minute]
    ELSE [raised |-> TRUE, hour |-> 0, minute |-> 0]

\* _parse_daily_time (lines 325-343); a % b is Python's, in 0..b-1 for b > 0.
_parse_daily_time(time_str) ==
    LET parts == time_str
        ints == \A i \in 1..Len(parts) : IntAccepts(parts[i])
        hour == IntOf(parts[1])
        minute == IF Len(parts) > 1 THEN IntOf(parts[2]) ELSE 0
        parsed_time == dtime(hour % 24, minute % 60)
    IN  IF ints /\ ~parsed_time.raised
        THEN [hour |-> parsed_time.hour, minute |-> parsed_time.minute]
        ELSE [hour |-> 9, minute |-> 0]

\* main parses DAILY_SEND_TIME (line 374).
ParseDailyTime ==
    /\ cycle.pc = "parse"
    /\ last' = [op |-> "parse", chat |-> 0, reply |-> "none", io |-> "none",
                time_str |-> cycle.time_str, ret |-> _parse_daily_time(cycle.time_str)]
    /\ UNCHANGED <<subFile, subLock, themeFile, themesEnabled, today, expected, clean,
                   firstRet, cycle, tasks, weekly, quiz>>

\* ------------------------------------------------------- the quiz (quiz.py)
\* QUIZ_QUESTIONS (quiz_data.py): the first two questions, with two of their
\* options each.
QUIZ_QUESTIONS ==
    <<[question |-> "Which empire was the first in the region to adopt Christianity as a state religion?",
       options |-> <<"Aksum", "Mali Empire">>, answer |-> "Aksum"],
      [question |-> "Which script is traditionally used to write many Ethiopian languages?",
       options |-> <<"Ge'ez", "Latin">>, answer |-> "Ge'ez"]>>

\* A callback data string as the pieces between its "|" characters; the empty
\* string (and a missing query.data, line 49) has none.
QuizData(opt) == <<"quiz", opt>>

\* _build_keyboard (lines 20-24): the callback data of the buttons.
_build_keyboard(options) == {QuizData(options[i]) : i \in DOMAIN options}

\* The callback data a press may carry: the buttons of every question, a
\* button of another feature, "quiz" with no separator, "quiz|a|b", none.
PressData ==
    UNION {_build_keyboard(QUIZ_QUESTIONS[i].options) : i \in DOMAIN QUIZ_QUESTIONS}
        \cup {<<"other", "Aksum">>, <<"quiz">>, <<"quiz", "Aksum", "Aksum">>, <<>>}

\* data.partition("|") (line 50): the text before the first "|" and the
\* pieces after it; equal to an answer only if it is that one piece.
partition(data) ==
    [prefix |-> IF data = <<>> THEN "" ELSE Head(data),
     chosen |-> IF data = <<>> THEN <<>> ELSE Tail(data)]

EXPIRED == "Quiz session expired. Use /quiz to try again."
CORRECT == "Correct!"
Incorrect(correct) == <<"Incorrect. The correct answer is ", correct>>

\* context.user_data.pop("quiz_correct_answer", None) (line 65), and one that
\* leaves the answer.
pop_kept(user_data, u) == user_data

pop(user_data, u) == [user_data EXCEPT ![u] = None]

\* No update is being handled and no user has an answer stored; asked and
\* graded count, per user, the /quiz commands and the Correct / Incorrect
\* texts shown since the user's last /quiz, shown is the last text a press of
\* the user was answered with.
IdleQuiz ==
    [pc |-> "idle", n |-> 0, user |-> 0, data |-> <<>>, text |-> None, grading |-> FALSE,
     user_data |-> [u \in Chats |-> None],
     asked |-> [u \in Chats |-> 0], graded |-> [u \in Chats |-> 0],
     shown |-> [u \in Chats |-> None]]

QuizFrame ==
    UNCHANGED <<subFile, subLock, themeFile, themesEnabled, today, last, expected, clean,
                firstRet, cycle, tasks, weekly>>

\* The Application is built without concurrent_updates (bot.py line 359), so
\* it handles one update at a time: a handler begins when none is running.
\* quiz_command up to `await update.message.reply_text` (lines 29-38).
QuizCommand(u) ==
    /\ quiz.pc = "idle"
    /\ quiz.n < MaxUpdates
    /\ IF QUIZ_QUESTIONS = <<>>
       THEN quiz' = [quiz EXCEPT !.pc = "reply", !.n = @ + 1, !.user = u]
       ELSE \E i \in DOMAIN QUIZ_QUESTIONS :
               quiz' = [quiz EXCEPT !.pc = "reply", !.n = @ + 1, !.user = u,
                                    !.user_data[u] = QUIZ_QUESTIONS[i].answer,
                                    !.asked[u] = 1, !.graded[u] = 0]
    /\ QuizFrame

\* reply_text returns or raises (lines 30, 38-41); the handler ends.
QuizReplied ==
    /\ quiz.pc = "reply"
    /\ quiz' = [quiz EXCEPT !.pc = "idle", !.user = 0]
    /\ QuizFrame

\* quiz_callback up to `await query.answer()` (lines 46-47).
CallbackBegins(u, data) ==
    /\ quiz.pc = "idle"
    /\ quiz.n < MaxUpdates
    /\ quiz' = [quiz EXCEPT !.pc = "answer", !.n = @ + 1, !.user = u, !.data = data]
    /\ QuizFrame

\* query.answer() raises and the handler ends, or returns and the handler
\* runs to its return of line 52 or to `await query.edit_message_text` (lines
\* 49-62).
CallbackAnswered ==
    /\ quiz.pc = "answer"
    /\ \E ok \in BOOLEAN :
          LET u == quiz.user
              parts == partition(quiz.data)
              correct == quiz.user_data[u]
              over == [quiz EXCEPT !.pc = "idle", !.user = 0, !.data = <<>>]
          IN  quiz' =
                 IF ~ok \/ parts.prefix # "quiz" THEN over
                 ELSE IF correct = None
                 THEN [quiz EXCEPT !.pc = "edit", !.text = EXPIRED, !.grading = FALSE]
                 ELSE IF parts.chosen = <<correct>>
                 THEN [quiz EXCEPT !.pc = "edit", !.text = CORRECT, !.grading = TRUE]
                 ELSE [quiz EXCEPT !.pc = "edit", !.text = Incorrect(correct),
                                   !.grading = TRUE]
    /\ QuizFrame

\* edit_message_text returns, and after a Correct or Incorrect the answer is
\* popped (lines 57-65), or it raises and the handler ends there.
CallbackEdited ==
    /\ quiz.pc = "edit"
    /\ \E ok \in BOOLEAN :
          LET u == quiz.user
              over == [quiz EXCEPT !.pc = "idle", !.user = 0, !.data = <<>>,
                                   !.text = None, !.grading = FALSE]
          IN  quiz' =
                 IF ~ok THEN over
                 ELSE IF quiz.grading
                 THEN [over EXCEPT !.shown[u] = quiz.text, !.graded[u] = @ + 1,
                                   !.user_data = pop(quiz.user_data, u)]
                 ELSE [over EXCEPT !.shown[u] = quiz.text]
    /\ QuizFrame

\* ------------------------------------------------------------ specifications

\* subscribers.json as the bot may find it when it starts.
SubSamples ==
    {SubMissing, SubInvalid, SubNotObject, SubNoKey}
        \cup {SubDump(p) : p \in UNION {Perms(S) : S \in SUBSET Chats}}
        \cup {SubList(<<JNumStr(1)>>), SubList(<<JInt(1), JWord>>),
              SubList(<<JNumStr(2), JInt(1)>>)}

\* themes.json as the bot may find it when it starts.
ThemeSamples == {ThemeMissing, ThemeInvalid, ThemeNotObject, ThemeOk(DefaultState)}

\* The Subscriber Store under /start and /stop.
InitSub ==
    /\ subFile \in SubSamples
    /\ subLock = FALSE
    /\ themeFile = ThemeMissing
    /\ themesEnabled = FALSE
    /\ today = 1
    /\ last = NoLast
    /\ expected = {}
    /\ clean = (subFile \in {SubMissing, SubDump(<<>>)})
    /\ firstRet = NoFirst
    /\ cycle = IdleCycle
    /\ tasks = {}
    /\ weekly = IdleWeekly
    /\ quiz = IdleQuiz

NextSub ==
    \/ \E c \in Chats : start_command(c)
    \/ \E c \in Chats : stop_command(c)

SpecSub == InitSub /\ [][NextSub]_vars

\* The Theme Store under /theme, the Dispatch Cycle's calls and the calendar.
InitTheme ==
    /\ subFile = SubMissing
    /\ subLock = FALSE
    /\ themeFile \in ThemeSamples
    /\ themesEnabled \in BOOLEAN
    /\ today = 1
    /\ last = NoLast
    /\ expected = {}
    /\ clean = TRUE
    /\ firstRet = NoFirst
    /\ cycle = IdleCycle
    /\ tasks = {}
    /\ weekly = IdleWeekly
    /\ quiz = IdleQuiz

NextTheme ==
    \/ \E c \in Chats, args \in ThemeArgs : theme_command(c, args)
    \/ CallEnsure
    \/ /\ LogSize(themeFile) < MaxLog
       /\ \E c \in Chats, fact \in FactTexts : CallLogFact(c, _week_key(today), fact)
    \/ AdvanceDay

SpecTheme == InitTheme /\ [][NextTheme]_vars

\* The Theme Store with themes enabled, from an empty themes.json, up to
\* MaxLogged facts logged.
InitLog ==
    /\ subFile = SubMissing
    /\ subLock = FALSE
    /\ themeFile = ThemeMissing
    /\ themesEnabled = TRUE
    /\ today = 1
    /\ last = NoLast
    /\ expected = {}
    /\ clean = TRUE
    /\ firstRet = NoFirst
    /\ cycle = IdleCycle
    /\ tasks = {}
    /\ weekly = IdleWeekly
    /\ quiz = IdleQuiz

NextLog ==
    \/ \E c \in Chats, args \in {<<"on">>, <<"off">>} : theme_command(c, args)
    \/ CallEnsure
    \/ /\ LogSize(themeFile) < MaxLogged
       /\ \E c \in Chats, fact \in FactTexts : CallLogFact(c, _week_key(today), fact)
    \/ AdvanceDay

SpecLog == InitLog /\ [][NextLog]_vars

\* The Dispatch Cycle under cron triggers, the language model and the
\* transport answering as they may.
ThemeWithSubs(subs) == ThemeOk([DefaultState EXCEPT !.subscribers = subs])

InitDispatch ==
    /\ subFile \in {SubMissing}
                       \cup {SubDump(CHOOSE p \in Perms(S) : TRUE) : S \in SUBSET Chats \ {{}}}
    /\ subLock = FALSE
    /\ themeFile \in {ThemeMissing, ThemeNotObject, ThemeWithSubs(<<1>>)}
    /\ themesEnabled \in BOOLEAN
    /\ today \in Days
    /\ last = NoLast
    /\ expected = {}
    /\ clean = TRUE
    /\ firstRet = NoFirst
    /\ cycle = IdleCycle
    /\ tasks = {}
    /\ weekly = IdleWeekly
    /\ quiz = IdleQuiz

NextDispatch ==
    \/ Trigger
    \/ ThemedGenerated
    \/ ThemedSent
    \/ GenericGenerated
    \/ GenericSent

SpecDispatch == InitDispatch /\ [][NextDispatch]_vars

\* compile_weekly_summary_sync on every theme, list of facts and answer of
\* the language model within the bounds.
InitSummary ==
    /\ subFile = SubMissing
    /\ subLock = FALSE
    /\ themeFile = ThemeMissing
    /\ themesEnabled = TRUE
    /\ today = 1
    /\ last = NoLast
    /\ expected = {}
    /\ clean = TRUE
    /\ firstRet = NoFirst
    /\ cycle \in [pc : {"summary"}, theme : SummaryThemes, facts : SummaryFacts,
                  llm : SummaryLlm]
    /\ tasks = {}
    /\ weekly = IdleWeekly
    /\ quiz = IdleQuiz

NextSummary == CompileSummary

SpecSummary == InitSummary /\ [][NextSummary]_vars

\* themes.json holding a theme for the week of day 1, the themed subscribers
\* subs and the week's log wk_log.
ThemeWithLog(subs, wk_log) ==
    ThemeOk([subscribers |-> subs, current_week_key |-> _week_key(1),
             current_theme |-> DEFAULT_THEMES[1],
             facts_log |-> (_week_key(1) :> wk_log)])

\* Logs of chat 1, of chat 2 and of both for one week.
WeekLogs ==
    {EmptyDict, StrOfChat(1) :> <<"fact A", "fact B">>, StrOfChat(2) :> <<"fact B">>,
     (StrOfChat(1) :> <<"fact A">>) @@ (StrOfChat(2) :> <<"fact B">>)}

\* The Weekly Summary Cycle with themes enabled, /theme commands arriving
\* while it waits.
InitWeekly ==
    /\ subFile = SubMissing
    /\ subLock = FALSE
    /\ themeFile \in {ThemeMissing, ThemeNotObject, ThemeWithSubs(<<1>>)}
                        \cup {ThemeWithLog(subs, wk_log) :
                                 subs \in {<<>>, <<1>>, <<2, 1>>}, wk_log \in WeekLogs}
    /\ themesEnabled = TRUE
    /\ today = 7
    /\ last = NoLast
    /\ expected = {}
    /\ clean = TRUE
    /\ firstRet = NoFirst
    /\ cycle = IdleCycle
    /\ tasks = {}
    /\ weekly = IdleWeekly
    /\ quiz = IdleQuiz

NextWeekly ==
    \/ WeeklyTrigger
    \/ WeeklyCompiled
    \/ WeeklySent
    \/ \E c \in Chats, args \in ThemeArgs : theme_command(c, args)

SpecWeekly == InitWeekly /\ [][NextWeekly]_vars

\* The Weekly Summary Cycle waits for the language model or for send_message.
WeeklySuspended == weekly.pc \in {"compile", "send"}

\* The Weekly Summary Cycle of a Sunday trigger that comes a day late, the
\* stored week being the one before: /theme on and /theme off are handled,
\* and facts are logged under both weeks, while it waits.
InitSnapshot ==
    /\ subFile = SubMissing
    /\ subLock = FALSE
    /\ themeFile \in {ThemeWithLog(<<2, 1>>, wk_log) : wk_log \in WeekLogs}
    /\ themesEnabled = TRUE
    /\ today = 8
    /\ last = NoLast
    /\ expected = {}
    /\ clean = TRUE
    /\ firstRet = NoFirst
    /\ cycle = IdleCycle
    /\ tasks = {}
    /\ weekly = IdleWeekly
    /\ quiz = IdleQuiz

NextSnapshot ==
    \/ WeeklyTrigger
    \/ WeeklyCompiled
    \/ WeeklySent
    \/ /\ WeeklySuspended
       /\ \E c \in Chats, args \in {<<"on">>, <<"off">>} : theme_command(c, args)
    \/ /\ WeeklySuspended
       /\ LogSize(themeFile) < MaxLogged
       /\ \E c \in Chats, d \in {1, today}, fact \in FactTexts :
             CallLogFact(c, _week_key(d), fact)

SpecSnapshot == InitSnapshot /\ [][NextSnapshot]_vars

\* /theme commands, Dispatch Cycles and the Weekly Summary Cycle on one event
\* loop with ENABLE_THEMES unset, themes.json holding what an earlier run with
\* the feature enabled left. The steps after the awaits of the themed branch
\* and of the summary loop are no part of Next: C12_DisabledIsInert shows
\* that no state waits at one of those awaits.
InitDisabled ==
    /\ subFile \in {SubMissing, SubDump(<<2>>), SubDump(<<1, 2>>)}
    /\ subLock = FALSE
    /\ themeFile \in {ThemeMissing, ThemeNotObject,
                       ThemeWithLog(<<1>>, StrOfChat(1) :> <<"fact A">>),
                       ThemeWithLog(<<2, 1>>, StrOfChat(1) :> <<"fact A", "fact B">>)}
    /\ themesEnabled = FALSE
    /\ today \in {1, 7}
    /\ last = NoLast
    /\ expected = {}
    /\ clean = TRUE
    /\ firstRet = NoFirst
    /\ cycle = IdleCycle
    /\ tasks = {}
    /\ weekly = IdleWeekly
    /\ quiz = IdleQuiz

NextDisabled ==
    \/ \E c \in Chats, args \in ThemeArgs : theme_command(c, args)
    \/ Trigger
    \/ GenericGenerated
    \/ GenericSent
    \/ WeeklyTrigger

SpecDisabled == InitDisabled /\ [][NextDisabled]_vars

\* The Dispatch Cycle waits for the language model or for send_message.
Suspended == cycle.pc \in {"gen_themed", "send_themed", "gen_generic", "send_generic"}

\* One Dispatch Cycle with themes enabled, /theme commands being handled while
\* it is suspended.
InitInterleave ==
    /\ subFile \in {SubDump(<<1>>), SubDump(<<1, 2>>)}
    /\ subLock = FALSE
    /\ themeFile \in {ThemeMissing, ThemeWithSubs(<<1>>), ThemeWithSubs(<<2, 1>>)}
    /\ themesEnabled = TRUE
    /\ today = 1
    /\ last = NoLast
    /\ expected = {}
    /\ clean = TRUE
    /\ firstRet = NoFirst
    /\ cycle = IdleCycle
    /\ tasks = {}
    /\ weekly = IdleWeekly
    /\ quiz = IdleQuiz

NextInterleave ==
    \/ (cycle.n = 0 /\ Trigger)
    \/ ThemedGenerated
    \/ ThemedSent
    \/ GenericGenerated
    \/ GenericSent
    \/ (Suspended /\ \E c \in Chats, args \in ThemeArgs : theme_command(c, args))

SpecInterleave == InitInterleave /\ [][NextInterleave]_vars

\* One Dispatch Cycle with themes enabled, /start and /stop being handled
\* while it is suspended.
InitRecipients ==
    /\ subFile \in {SubDump(<<1>>), SubDump(<<1, 2>>)}
    /\ subLock = FALSE
    /\ themeFile \in {ThemeNotObject, ThemeWithSubs(<<1>>)}
    /\ themesEnabled = TRUE
    /\ today = 1
    /\ last = NoLast
    /\ expected = PersistedSubs(subFile)
    /\ clean = TRUE
    /\ firstRet = NoFirst
    /\ cycle = IdleCycle
    /\ tasks = {}
    /\ weekly = IdleWeekly
    /\ quiz = IdleQuiz

NextRecipients ==
    \/ (cycle.n = 0 /\ Trigger)
    \/ ThemedGenerated
    \/ ThemedSent
    \/ GenericGenerated
    \/ GenericSent
    \/ (Suspended /\ \E c \in Chats : start_command(c))
    \/ (Suspended /\ \E c \in Chats : stop_command(c))

SpecRecipients == InitRecipients /\ [][NextRecipients]_vars

\* One Dispatch Cycle and one Weekly Summary Cycle with themes enabled on an
\* empty facts_log, chats leaving the Subscriber Set with /stop at any time.
InitLeavers ==
    /\ subFile \in {SubDump(<<1>>), SubDump(<<1, 2>>)}
    /\ subLock = FALSE
    /\ themeFile = ThemeWithSubs(<<2, 1>>)
    /\ themesEnabled = TRUE
    /\ today = 1
    /\ last = NoLast
    /\ expected = PersistedSubs(subFile)
    /\ clean = TRUE
    /\ firstRet = NoFirst
    /\ cycle = IdleCycle
    /\ tasks = {}
    /\ weekly = IdleWeekly
    /\ quiz = IdleQuiz

NextLeavers ==
    \/ (cycle.n = 0 /\ Trigger)
    \/ ThemedGenerated
    \/ ThemedSent
    \/ GenericGenerated
    \/ GenericSent
    \/ \E c \in Chats : stop_command(c)
    \/ WeeklyTrigger
    \/ WeeklyCompiled
    \/ WeeklySent

SpecLeavers == InitLeavers /\ [][NextLeavers]_vars

\* /quiz commands and button presses of two users.
InitQuiz ==
    /\ subFile = SubMissing
    /\ subLock = FALSE
    /\ themeFile = ThemeMissing
    /\ themesEnabled = FALSE
    /\ today = 1
    /\ last = NoLast
    /\ expected = {}
    /\ clean = TRUE
    /\ firstRet = NoFirst
    /\ cycle = IdleCycle
    /\ tasks = {}
    /\ weekly = IdleWeekly
    /\ quiz = IdleQuiz

NextQuiz ==
    \/ \E u \in Chats : QuizCommand(u)
    \/ QuizReplied
    \/ \E u \in Chats, data \in PressData : CallbackBegins(u, data)
    \/ CallbackAnswered
    \/ CallbackEdited

SpecQuiz == InitQuiz /\ [][NextQuiz]_vars

\* /start and /stop handlers whose reply_text awaits overlap one another and
\* the awaits of the Dispatch Cycle.
InitTasks ==
    /\ subFile \in {SubInvalid, SubDump(<<1>>)}
    /\ subLock = FALSE
    /\ themeFile = ThemeWithSubs(<<1>>)
    /\ themesEnabled \in BOOLEAN
    /\ today = 1
    /\ last = NoLast
    /\ expected = {}
    /\ clean = TRUE
    /\ firstRet = NoFirst
    /\ cycle = IdleCycle
    /\ tasks = {}
    /\ weekly = IdleWeekly
    /\ quiz = IdleQuiz

NextTasks ==
    \/ \E op \in {"start", "stop"}, chat_id \in Chats : HandlerBegins(op, chat_id)
    \/ HandlerReplied
    \/ (cycle.n = 0 /\ Trigger)
    \/ ThemedGenerated
    \/ ThemedSent
    \/ GenericGenerated
    \/ GenericSent

SpecTasks == InitTasks /\ [][NextTasks]_vars

\* _parse_daily_time on every DAILY_SEND_TIME value within TimeStrings.
InitTime ==
    /\ subFile = SubMissing
    /\ subLock = FALSE
    /\ themeFile = ThemeMissing
    /\ themesEnabled = FALSE
    /\ today = 1
    /\ last = NoLast
    /\ expected = {}
    /\ clean = TRUE
    /\ firstRet = NoFirst
    /\ cycle \in [pc : {"parse"}, time_str : TimeStrings]
    /\ tasks = {}
    /\ weekly = IdleWeekly
    /\ quiz = IdleQuiz

NextTime == ParseDailyTime

SpecTime == InitTime /\ [][NextTime]_vars

\* ------------------------------------------------------------------- claims
SubOps == {"start", "stop"}

\* C1: whatever /start and /stop commands were applied, one after another, to
\* a Subscriber Set that started empty, while every file write succeeded, the
\* persisted set after each command is the set the same adds and removes give
\* in memory.
C1_NoLostUpdate == clean => PersistedSubs(subFile) = expected

C1_Witness ==
    /\ clean
    /\ last.op = "stop" /\ last.saved
    /\ Cardinality(expected) >= 1
    /\ PersistedSubs(subFile) = expected

\* C7 as stated: /start of a chat already in the set and /stop of one not in
\* it save nothing, leave the file as it was and reply so; and a command
\* repeated right after itself leaves the persisted set as the first left it.
C7_NoOps ==
    /\ (last.op = "start" /\ last.chat \in PersistedSubs(last.pre))
          => ~last.saved /\ subFile = last.pre /\ last.reply = "already subscribed"
    /\ (last.op = "stop" /\ last.chat \notin PersistedSubs(last.pre))
          => ~last.saved /\ subFile = last.pre /\ last.reply = "not subscribed"

C5_OverrideAlwaysWins ==
    (last.op = "set" /\ ~last.raised /\ last.io \in {"ok", "none"})
        => /\ last.ret[2] = last.override
           /\ _load_state(themeFile).st.current_theme = last.override

C8_AsStated ==
    /\ (last.op = "subscribe" /\ ~last.raised) =>
          /\ last.ret <=> ~last.wasSub
          /\ last.ret => last.chat \in ThemedSubs(themeFile)
          /\ ~last.ret => last.unchanged
    /\ (last.op = "unsubscribe" /\ ~last.raised) =>
          /\ last.ret <=> last.wasSub
          /\ last.ret => last.chat \notin ThemedSubs(themeFile)
          /\ ~last.ret => last.unchanged

\* C8 amended: the return values as stated; after true the persisted list
\* shows the change when the write succeeded, and when the write failed the
\* file is as it was or cannot be parsed; after false the file is as it was.
C8_ReturnValues ==
    /\ (last.op = "subscribe" /\ ~last.raised) =>
          /\ last.ret <=> ~last.wasSub
          /\ (last.ret /\ last.io = "ok") => last.chat \in ThemedSubs(themeFile)
          /\ (last.ret /\ last.io # "ok") => last.unchanged \/ themeFile = ThemeInvalid
          /\ ~last.ret => last.unchanged /\ ~last.saved
    /\ (last.op = "unsubscribe" /\ ~last.raised) =>
          /\ last.ret <=> last.wasSub
          /\ (last.ret /\ last.io = "ok") => last.chat \notin ThemedSubs(themeFile)
          /\ (last.ret /\ last.io # "ok") => last.unchanged \/ themeFile = ThemeInvalid
          /\ ~last.ret => last.unchanged /\ ~last.saved

C8_Witness ==
    /\ last.op = "unsubscribe" /\ last.ret /\ last.io = "ok"
    /\ last.chat \notin ThemedSubs(themeFile)
    /\ ThemedSubs(themeFile) # {}

\* C2: a Dispatch Cycle calls the generic generator at most once and every
\* message of its generic branch carries the same fact text; a cycle that ran
\* its loop with themes disabled made exactly one call, tried a send for every
\* subscriber and sent every recipient the message of that one fact.
C2_GenericOnce ==
    /\ cycle.genCalls <= 1
    /\ \A a, b \in cycle.genericTo : cycle.sent[a] = cycle.sent[b]
    /\ (cycle.outcome = "completed" /\ ~themesEnabled) =>
          /\ cycle.genCalls = 1
          /\ cycle.tried = cycle.S
          /\ \A c \in Chats :
                cycle.sent[c] = IF c \in cycle.genericTo
                                THEN GenericMessage(cycle.generic_fact) ELSE None

C2_Witness ==
    /\ cycle.outcome = "completed" /\ ~themesEnabled /\ cycle.n = MaxCycles
    /\ cycle.genericTo = Chats
    /\ cycle.genCalls = 1
    /\ cycle.sent[1] = cycle.sent[2]

\* C3: a Dispatch Cycle that ran its loop over S, no themed generation having
\* raised, in which the sends to the chats of F raised: it returned from the
\* loop, a send was tried for every chat of S (so for every chat after a
\* failing one), and it counted |S| - |F| successful and |F| failed sends.
C3_FailuresCounted ==
    (cycle.outcome = "completed" /\ cycle.genRaised = {}) =>
        /\ cycle.tried = cycle.S
        /\ \A i, j \in 1..Len(cycle.order) :
              (i < j /\ cycle.order[i] \in cycle.sendFailed) => cycle.order[j] \in cycle.tried
        /\ cycle.sendFailed \subseteq cycle.S
        /\ cycle.failed_sends = Cardinality(cycle.sendFailed)
        /\ cycle.successful_sends = Cardinality(cycle.S) - Cardinality(cycle.sendFailed)
        /\ \A c \in cycle.S \ cycle.sendFailed : cycle.sent[c] # None

C3_Witness ==
    /\ cycle.outcome = "completed" /\ cycle.genRaised = {}
    /\ Len(cycle.order) = 2
    /\ cycle.sendFailed = {cycle.order[1]}
    /\ cycle.sent[cycle.order[2]] # None
    /\ cycle.successful_sends = 1 /\ cycle.failed_sends = 1

\* C4 as stated: no chat is sent the apology text, and a chat whose fact the
\* language model failed to give is sent nothing and is counted as a failed
\* send, in the themed branch and in the generic branch.
C4_NoApologyDelivered ==
    /\ \A c \in Chats : cycle.sent[c] # GenericMessage(APOLOGY)
    /\ \A c \in cycle.noFact : cycle.sent[c] = None
    /\ cycle.outcome = "completed" => cycle.failed_sends >= Cardinality(cycle.noFact)

\* text holds part as a run of consecutive tokens starting at from or later.
OccursFrom(text, part, from) ==
    {p \in from..(Len(text) - Len(part) + 1) : SubSeq(text, p, p + Len(part) - 1) = part}

\* text holds the parts one after another, in their order, from from on.
RECURSIVE HoldsInOrder(_, _, _)
HoldsInOrder(text, parts, from) ==
    \/ parts = <<>>
    \/ /\ parts # <<>>
       /\ \E p \in OccursFrom(text, Head(parts), from) :
             HoldsInOrder(text, Tail(parts), p + Len(Head(parts)))

\* C9: compile_weekly_summary_sync never raises, whatever the theme, the
\* facts and the language model's answer; when the language-model call raised,
\* the text returned holds the theme name and every fact verbatim, the facts in
\* the order given.
C9_FallbackKeepsFacts ==
    last.op = "compile" =>
        /\ ~last.raised
        /\ last.llm.kind = "raises" =>
              /\ OccursFrom(last.ret, last.theme, 1) # {}
              /\ HoldsInOrder(last.ret, last.facts, 1)

C9_Witness ==
    /\ last.op = "compile" /\ last.llm.kind = "raises"
    /\ last.theme = <<"A", "d", "w", "a">>
    /\ last.facts = <<<<"a", "a">>, <<"a", NL>>>>
    /\ HoldsInOrder(last.ret, last.facts, 1)
    /\ ~HoldsInOrder(last.ret, Reverse(last.facts), 1)

\* last is the record of a /theme command.
IsThemeCommand == "action" \in DOMAIN last

\* C11: a /theme set from a chat that is not in THEME_ADMIN_IDS does not call
\* ensure_current_week_theme, writes nothing and leaves themes.json as it
\* was; a /theme set that reached ensure_current_week_theme came from a chat
\* in THEME_ADMIN_IDS.
C11_OnlyAdminsSet ==
    /\ (IsThemeCommand /\ last.action = "set" /\ last.chat \notin THEME_ADMIN_IDS) =>
          /\ last.op \in {"denied", "disabled"}
          /\ last.unchanged
          /\ ~last.saved
    /\ last.op = "set" => last.chat \in THEME_ADMIN_IDS

C11_Witness ==
    /\ IsThemeCommand /\ last.action = "set" /\ last.chat \notin THEME_ADMIN_IDS
    /\ last.op = "denied" /\ last.reply = "not authorized"
    /\ themeFile.kind = "ok" /\ themeFile.st.current_theme = DEFAULT_THEMES[2]
    /\ themeFile.st.subscribers # <<>>

\* time_str is a well-formed 24-hour "HH:MM" value.
WellFormedTime(time_str) ==
    /\ Len(time_str) = 2
    /\ \A i \in 1..2 : IntAccepts(time_str[i])
    /\ IntOf(time_str[1]) \in 0..23
    /\ IntOf(time_str[2]) \in 0..59

\* C13 as stated: for every DAILY_SEND_TIME that is no well-formed 24-hour
\* "HH:MM" value, _parse_daily_time returns 09:00.
C13_MalformedGivesNine ==
    (last.op = "parse" /\ ~WellFormedTime(last.time_str))
        => last.ret = [hour |-> 9, minute |-> 0]

\* The Theme Store calls that open themes.json.
ThemeStoreOps == {"status", "subscribe", "unsubscribe", "set", "ensure", "log_fact"}

\* C14 as stated: every Theme Store call that reads or rewrites themes.json
\* does so holding a lock of the Theme Store.
C14_ThemeStoreLocked ==
    (last.op \in ThemeStoreOps /\ "locks" \in DOMAIN last) => last.locks # {}

\* subscribers.json holds what handler t did: t.chat is in the persisted set
\* after /start and out of it after /stop.
Reflects(t) == (t.chat \in PersistedSubs(subFile)) <=> (t.op = "start")

\* Two handlers for different chats, both waiting for reply_text, no later
\* handler having dealt with either chat.
ConcurrentPairs ==
    {<<t1, t2>> \in tasks \X tasks :
        t1.id # t2.id /\ t1.chat # t2.chat /\ ~t1.later /\ ~t2.later}

LogOf(facts_log, w, c) == DictGet(DictGet(facts_log, w, EmptyDict), StrOfChat(c), <<>>)

\* Since the running Dispatch Cycle began, the log of chat c for week w has
\* grown by the themed fact sent to c if w is the cycle's week and c was sent
\* one, and is as it was otherwise.
GrewByThemedFact(w, c) ==
    LET before == LogOf(cycle.log0, w, c)
        now == LogOf(_load_state(themeFile).st.facts_log, w, c)
    IN  IF w = cycle.wk /\ cycle.themedFact[c] # None
        THEN now = Append(before, cycle.themedFact[c])
        ELSE now = before

\* The week keys of the run, the empty one included.
WeekKeys == {_week_key(d) : d \in Days} \cup {""}

InDispatchCycle == cycle.n > 0 /\ "log0" \in DOMAIN cycle

NoStoredWeek ==
    LET cur == get_current_theme(weekly.start).ret IN cur[1] = "" \/ cur[2] = ""

\* When the cycle began, chat c was a themed subscriber with a non-empty log
\* for the stored week key.
DueSummary(c) ==
    /\ c \in ThemedSubs(weekly.start)
    /\ LoggedFacts(weekly.start, get_current_theme(weekly.start).ret[1], c) # <<>>

\* C18: in a Weekly Summary Cycle with themes enabled, no message is sent and
\* the language model is not called when the stored week key or theme is
\* empty; otherwise no chat is sent to twice, none whose log for the stored
\* week is empty or absent is sent to, and once the cycle has ended every
\* themed subscriber with a non-empty log has had exactly one send attempt,
\* whichever sends failed.
C18_OneSummaryEach ==
    (weekly.n > 0 /\ themesEnabled) =>
        /\ NoStoredWeek =>
              /\ weekly.pc = "done"
              /\ weekly.llmCalls = 0
              /\ \A c \in Chats : weekly.attempts[c] = 0
        /\ \A c \in Chats : weekly.attempts[c] <= (IF DueSummary(c) THEN 1 ELSE 0)
        /\ (weekly.pc = "done" /\ ~NoStoredWeek) =>
              \A c \in Chats : weekly.attempts[c] = (IF DueSummary(c) THEN 1 ELSE 0)

C18_Witness ==
    /\ weekly.pc = "done" /\ weekly.outcome = "completed" /\ themesEnabled
    /\ weekly.start = ThemeWithLog(<<2, 1>>, (StrOfChat(1) :> <<"fact A">>)
                                                 @@ (StrOfChat(2) :> <<"fact B">>))
    /\ weekly.sendFailed = {2}
    /\ weekly.attempts = [c \in Chats |-> 1]
    /\ weekly.texts[1] # <<>>
    /\ 1 \notin ThemedSubs(themeFile)

\* Nothing themed has happened: the last /theme command was refused and wrote
\* nothing, the Dispatch Cycle waits at no themed await and has sent the
\* generic fact only, the Weekly Summary Cycle returned at once.
NothingThemed ==
    /\ IsThemeCommand => (last.op = "disabled" /\ ~last.saved /\ last.unchanged)
    /\ cycle.pc \notin {"gen_themed", "send_themed"}
    /\ \A c \in Chats :
          /\ cycle.themedFact[c] = None
          /\ cycle.sent[c] # None =>
                (c \in cycle.genericTo /\ cycle.sent[c] = GenericMessage(cycle.generic_fact))
    /\ weekly.pc \in {"idle", "done"}
    /\ weekly.n > 0 => weekly.outcome = "disabled"
    /\ weekly.llmCalls = 0
    /\ \A c \in Chats : weekly.attempts[c] = 0 /\ weekly.texts[c] = <<>>

\* C12: while the themes flag is false, no /theme command, Dispatch Cycle or
\* Weekly Summary Cycle changes themes.json, every message of a Dispatch Cycle
\* is the generic fact, themed subscribers included, and the Weekly Summary
\* Cycle sends nothing.
C12_DisabledIsInert ==
    /\ [](~themesEnabled => NothingThemed)
    /\ [][~themesEnabled => themeFile' = themeFile]_vars

C12_Witness ==
    /\ ~themesEnabled
    /\ themeFile = ThemeWithLog(<<2, 1>>, StrOfChat(1) :> <<"fact A", "fact B">>)
    /\ cycle.pc = "done" /\ cycle.outcome = "completed"
    /\ cycle.sent[1] = GenericMessage("fact B") /\ cycle.sent[2] = GenericMessage("fact B")
    /\ weekly.n = 1 /\ weekly.outcome = "disabled"
    /\ IsThemeCommand /\ last.action = "off" /\ last.chat = 1

\* C19: from an empty Theme State on, whenever themes.json holds a week key
\* it holds a theme too.
C19_ThemeWithWeekKey ==
    LET state == _load_state(themeFile).st
    IN  state.current_week_key # "" => state.current_theme # ""

C19_Witness ==
    /\ last.op = "ensure" /\ last.override = "" /\ last.saved /\ last.io = "ok"
    /\ themeFile.kind = "ok"
    /\ themeFile.st.current_week_key = _week_key(8)
    /\ themeFile.st.current_theme = DEFAULT_THEMES[2]
    /\ themeFile.st.subscribers # <<>>
    /\ LogSize(themeFile) > 0

IsPrefix(s, t) == Len(s) <= Len(t) /\ SubSeq(t, 1, Len(s)) = s

\* A step keeps every logged fact at its position.
LogsKept ==
    \A w \in WeekKeys, c \in Chats :
        IsPrefix(LogOf(_load_state(themeFile).st.facts_log, w, c),
                 LogOf(_load_state(themeFile').st.facts_log, w, c))

StoredWeek(f) == get_current_theme(f).ret

\* The last call was ensure_current_week_theme (from the Dispatch Cycle or
\* from /theme set) and it returned.
EnsureReturned == last.op \in {"ensure", "set"} /\ ~last.raised

\* After an ensure_current_week_theme call whose write, if any, succeeded,
\* themes.json holds the week key of today and a facts_log bucket for it.
WeekStoredAfterEnsure ==
    (EnsureReturned /\ last.io \in {"ok", "none"}) =>
        /\ StoredWeek(themeFile)[1] = _week_key(today)
        /\ _week_key(today) \in DOMAIN _load_state(themeFile).st.facts_log

\* A step that changes the stored week key or theme is an
\* ensure_current_week_theme call that found another week's key stored, or
\* none.
ChangeIsSelection ==
    StoredWeek(themeFile') # StoredWeek(themeFile) =>
        /\ last'.op \in {"ensure", "set"}
        /\ StoredWeek(themeFile)[1] # _week_key(today)

C23_NoErrorPropagates ==
    (last.op \in ThemeStoreOps /\ "raised" \in DOMAIN last) => ~last.raised

\* A started language-model call or send_message returns or raises in the end.
DispatchFairness ==
    /\ WF_vars(ThemedGenerated) /\ WF_vars(ThemedSent)
    /\ WF_vars(GenericGenerated) /\ WF_vars(GenericSent)

SpecDispatchFair == SpecDispatch /\ DispatchFairness

\* A Dispatch Cycle that has begun ends.
CycleTerminates == (cycle.n > 0) ~> (cycle.pc = "done")

\* C22 as stated: a Dispatch Cycle makes at most one send_message call per
\* chat and takes no chat twice, and when it has ended it has processed each
\* chat of the set it loaded exactly once.
C22_EachChatOnce ==
    cycle.n > 0 =>
        /\ \A c \in Chats : cycle.visits[c] <= 1 /\ cycle.sends[c] <= cycle.visits[c]
        /\ cycle.pc = "done" =>
              \A c \in Chats : cycle.visits[c] = (IF c \in cycle.S THEN 1 ELSE 0)

\* What /theme handlers write: the themed subscribers and the week's theme.
HandlerState(f) ==
    LET st == _load_state(f).st
    IN  <<st.subscribers, st.current_week_key, st.current_theme>>

\* The step is a Dispatch Cycle's log_fact_for_chat, made after its send.
LogStep == cycle.pc = "send_themed" /\ cycle'.themedFact[cycle.chat_id] # None

\* After the step, what the handlers wrote is as it was before it and the
\* logged fact is the last one of the chat's log.
BothPresent ==
    LET now == LogOf(_load_state(themeFile').st.facts_log, cycle.wk, cycle.chat_id)
    IN  /\ HandlerState(themeFile') = HandlerState(themeFile)
        /\ now # <<>>
        /\ now[Len(now)] = cycle.themed_fact

Processed == {c \in Chats : cycle.visits[c] > 0}

\* C25: the chats a Dispatch Cycle takes are chats of the Subscriber Set it
\* loaded when it began, whatever /start and /stop have done to
\* subscribers.json since, and when the cycle has ended it has taken every one
\* of them.
C25_RecipientsFixedAtStart ==
    cycle.n > 0 =>
        /\ Processed \subseteq cycle.S
        /\ cycle.pc = "done" => Processed = cycle.S

\* Chat c is a themed subscriber and is not in subscribers.json.
ThemedOnly(c) == c \in ThemedSubs(themeFile) /\ c \notin PersistedSubs(subFile)

\* A step in which a Dispatch Cycle calls send_message for chat c, in which a
\* fact is appended to a log of c, in which a Weekly Summary Cycle calls
\* send_message for c.
DispatchSendsTo(c) == cycle'.sends[c] > cycle.sends[c]
LogGrowsFor(c) ==
    \E w \in WeekKeys : Len(LogOf(_load_state(themeFile').st.facts_log, w, c))
                            > Len(LogOf(_load_state(themeFile).st.facts_log, w, c))
SummarySentTo(c) == weekly'.attempts[c] > weekly.attempts[c]

\* C26 as stated: a chat that is a themed subscriber and not in the
\* Subscriber Set is sent nothing by a Dispatch Cycle, has no fact appended
\* to its facts_log and is sent no weekly summary.
C26_AsStated ==
    [][\A c \in Chats : ThemedOnly(c) =>
            ~DispatchSendsTo(c) /\ ~LogGrowsFor(c) /\ ~SummarySentTo(c)]_vars

\* C26: a Dispatch Cycle sends and logs only for chats of the Subscriber Set
\* it loaded when it began, and a Weekly Summary Cycle sends a summary only
\* to a chat with facts logged under the stored week key; so, from an empty
\* facts_log, a chat that was in no Dispatch Cycle's Subscriber Set is sent
\* neither a fact nor a summary.
FactsOnlyForLoaded ==
    \A c \in Chats :
        /\ DispatchSendsTo(c) => c \in cycle.S
        /\ LogGrowsFor(c) => c \in cycle.S /\ cycle.pc = "send_themed" /\ cycle.chat_id = c
        /\ SummarySentTo(c) => LogOf(weekly.start.st.facts_log, weekly.wk, c) # <<>>

NothingForOthers ==
    \A c \in Chats \ cycle.S :
        /\ cycle.sends[c] = 0 /\ cycle.sent[c] = None /\ cycle.themedFact[c] = None
        /\ weekly.attempts[c] = 0 /\ weekly.texts[c] = <<>>
        /\ \A w \in WeekKeys : LogOf(_load_state(themeFile).st.facts_log, w, c) = <<>>

C26_OnlyLoadedSubscribers == []NothingForOthers /\ [][FactsOnlyForLoaded]_vars

C26_Witness ==
    /\ cycle.pc = "done" /\ cycle.S = {1} /\ cycle.themedFact[1] = "fact A"
    /\ ThemedOnly(1) /\ ThemedOnly(2)
    /\ weekly.pc = "done" /\ weekly.outcome = "completed"
    /\ weekly.attempts[1] = 1 /\ weekly.texts[1] # <<>>
    /\ weekly.attempts[2] = 0 /\ cycle.sends[2] = 0

\* The week key and the theme stored in themes.json when the running Weekly
\* Summary Cycle began, and the facts then logged for chat c under that key.
SnapshotWeek == get_current_theme(weekly.start).ret[1]
SnapshotTheme == get_current_theme(weekly.start).ret[2]
SnapshotFacts(c) == LoggedFacts(weekly.start, SnapshotWeek, c)

\* The texts a summary message for chat c made from the snapshot can have.
SnapshotMessages(c) ==
    {SummaryMessage(SnapshotTheme, _to_thread_compile(SnapshotTheme, SnapshotFacts(c), llm)) :
        llm \in LlmOutcomes}

\* C27: a Weekly Summary Cycle works with the week key and theme stored in
\* themes.json when it began, not with the week of the trigger day; it sends
\* to a chat only if the chat was a themed subscriber with facts logged under
\* that key when the cycle began, and to each such chat once it has ended;
\* every text it sends is made of that theme and of exactly those facts,
\* whatever has been subscribed, unsubscribed or logged since; and no step of
\* the cycle changes themes.json.
SummaryFromSnapshot ==
    (weekly.n > 0 /\ weekly.outcome \notin {"disabled", "raised", "skipped"}) =>
        /\ weekly.wk = SnapshotWeek /\ weekly.theme = SnapshotTheme
        /\ \A c \in Chats :
              /\ weekly.attempts[c] <= (IF DueSummary(c) THEN 1 ELSE 0)
              /\ weekly.texts[c] # <<>> => weekly.texts[c] \in SnapshotMessages(c)
        /\ weekly.pc = "send" =>
              SummaryMessage(weekly.theme, weekly.summary) \in SnapshotMessages(weekly.chat_id)
        /\ weekly.pc = "done" =>
              \A c \in Chats : weekly.attempts[c] = (IF DueSummary(c) THEN 1 ELSE 0)

C27_WorksOnSnapshot ==
    /\ []SummaryFromSnapshot
    /\ [][weekly' # weekly => themeFile' = themeFile]_vars

C27_Witness ==
    /\ weekly.pc = "done" /\ weekly.outcome = "completed"
    /\ today = 8 /\ SnapshotWeek = _week_key(1) /\ SnapshotWeek # _week_key(today)
    /\ ThemedSubs(weekly.start) = {1, 2} /\ ThemedSubs(themeFile) = {1}
    /\ SnapshotFacts(1) = <<>> /\ SnapshotFacts(2) = <<"fact B">>
    /\ LoggedFacts(themeFile, _week_key(1), 2) = <<"fact B", "fact A">>
    /\ weekly.attempts[1] = 0 /\ weekly.attempts[2] = 1
    /\ weekly.texts[2] = SummaryMessage(DEFAULT_THEMES[1],
                             <<"Weekly Summary for", DEFAULT_THEMES[1], <<"fact B">>>>)

\* The update being handled is a button press whose data does not begin with
\* "quiz|" (or is not "quiz"), query.answer() not yet returned.
ForeignPress == quiz.pc = "answer" /\ partition(quiz.data).prefix # "quiz"

\* What is stored and what users have been shown stays as it is.
QuizStateKept ==
    /\ quiz'.user_data = quiz.user_data
    /\ quiz'.graded = quiz.graded
    /\ quiz'.shown = quiz.shown
    /\ quiz'.pc = "idle"

\* C28: since a user's last /quiz at most one press of the user has been
\* answered Correct or Incorrect; once one has, no answer is stored for the
\* user; a press handled while no answer is stored is answered with the
\* expired text and is not graded; and handling a press whose data lacks the
\* quiz prefix changes nothing that is stored.
OneGradingPerQuiz ==
    /\ \A u \in Chats :
          /\ quiz.graded[u] <= quiz.asked[u]
          /\ quiz.graded[u] = 1 => quiz.user_data[u] = None
    /\ quiz.pc = "edit" =>
          /\ quiz.grading <=> quiz.user_data[quiz.user] # None
          /\ quiz.grading => quiz.graded[quiz.user] = 0
          /\ ~quiz.grading <=> quiz.text = EXPIRED

C28_OneGradedResponse == []OneGradingPerQuiz /\ [][ForeignPress => QuizStateKept]_vars

C28_Witness ==
    /\ quiz.pc = "idle" /\ quiz.n = 4
    /\ quiz.asked[1] = 1 /\ quiz.graded[1] = 1 /\ quiz.user_data[1] = None
    /\ quiz.shown[1] = EXPIRED
    /\ quiz.user_data[2] = "Ge'ez" /\ quiz.graded[2] = 0

====
